---- MODULE Spec2Model ----
(***************************************************************************)
(* USB-Disconnector v2.0: device enumeration, VID/PID key extraction,      *)
(* status classification, the name-override store and the Tk application   *)
(* that drives them (src/USB_Disconnector_2.0.py).                         *)
(*                                                                         *)
(* Python values are modelled as tagged records:                           *)
(*   [t |-> "null"]                    None / JSON null                    *)
(*   [t |-> "bool", b |-> TRUE]        True / False                        *)
(*   [t |-> "num",  n |-> 22]          an int                              *)
(*   [t |-> "str",  s |-> <<"O","K">>] a str, as a sequence of characters  *)
(*   [t |-> "list", items |-> <<..>>]  a list                              *)
(*   [t |-> "obj",  f |-> [k |-> v]]   a dict with string keys             *)
(***************************************************************************)
EXTENDS Integers, Sequences, FiniteSets, Bags, TLC

VARIABLES
    idString,       \* SpecKey: the identifier handed to extract_vid_pid
    keyResult,      \* SpecKey: what extract_vid_pid returned, or Pending
    statusQuery,    \* SpecStatus: what run_as_admin returned to get_device_status
    statusResult,   \* SpecStatus: what get_device_status did, or Pending
    enumQuery,      \* SpecDir: what run_as_admin returned to the enumeration
    enumDb,         \* SpecDir: the device_database handed to the enumeration
    enumResult,     \* SpecDir: what the enumeration did, or Pending
    \* Spec: the application
    device_db,                      \* self.device_db: "VID:PID" -> custom name
    db_file,                        \* the content of device_names.json
    available_devices,              \* self.available_devices
    current_selected_device_id,     \* self.current_selected_device_id
    combobox_values,                \* self.device_combobox['values']
    selected_device_name,           \* self.selected_device_name (the combobox text)
    status_label_text,              \* self.status_label_text
    buttons_state,                  \* state of the disable, enable and edit-name buttons
    ui,                             \* where the Tk main thread is
    workers,                        \* the worker threads in flight, a bag
    after_queue,                    \* callbacks scheduled with master.after(0, ...)
    disabled_devices,               \* the devices pnputil has disabled
    user_actions                    \* how many user actions were taken

keyVars == <<idString, keyResult>>
statusVars == <<statusQuery, statusResult>>
dirVars == <<enumQuery, enumDb, enumResult>>
storeVars == <<device_db, db_file>>
guiVars == <<available_devices, current_selected_device_id, combobox_values,
             selected_device_name, status_label_text, buttons_state>>
appVars == <<storeVars, guiVars, ui, workers, after_queue, disabled_devices, user_actions>>

vars == <<keyVars, statusVars, dirVars, appVars>>

----------------------------------------------------------------------------
(* Python values *)

PyNone == [t |-> "null"]
PyBool(b) == [t |-> "bool", b |-> b]
PyNum(n) == [t |-> "num", n |-> n]
PyString(s) == [t |-> "str", s |-> s]
PyList(items) == [t |-> "list", items |-> items]
PyDict(f) == [t |-> "obj", f |-> f]

Pending == [t |-> "pending"]

\* Python truthiness, as used by `if x`, `x and y`, `x or y`.
Truthy(v) ==
    CASE v.t = "null" -> FALSE
      [] v.t = "bool" -> v.b
      [] v.t = "num"  -> v.n # 0
      [] v.t = "str"  -> Len(v.s) > 0
      [] v.t = "list" -> Len(v.items) > 0
      [] v.t = "obj"  -> DOMAIN v.f # {}
      [] OTHER -> FALSE

\* x or y
PyOr(x, y) == IF Truthy(x) THEN x ELSE y

\* dict.get(key, default)
DictGet(d, key, default) == IF key \in DOMAIN d.f THEN d.f[key] ELSE default

----------------------------------------------------------------------------
(* Characters and strings *)

UpperLetters ==
    <<"A","B","C","D","E","F","G","H","I","J","K","L","M",
      "N","O","P","Q","R","S","T","U","V","W","X","Y","Z">>
LowerLetters ==
    <<"a","b","c","d","e","f","g","h","i","j","k","l","m",
      "n","o","p","q","r","s","t","u","v","w","x","y","z">>
Digits == <<"0","1","2","3","4","5","6","7","8","9">>

\* The printable ASCII characters in code-point order: 32 (space) to 95 (_),
\* and 97 (a) to 126 (~). Code point 96 is not used by any modelled string.
AsciiLow ==
    <<" ","!","\"","#","$","%","&","'","(",")","*","+",",","-",".","/",
      "0","1","2","3","4","5","6","7","8","9",":",";","<","=",">","?","@",
      "A","B","C","D","E","F","G","H","I","J","K","L","M",
      "N","O","P","Q","R","S","T","U","V","W","X","Y","Z",
      "[","\\","]","^","_">>
AsciiHigh ==
    <<"a","b","c","d","e","f","g","h","i","j","k","l","m",
      "n","o","p","q","r","s","t","u","v","w","x","y","z",
      "{","|","}","~">>

Range(seq) == {seq[i] : i \in DOMAIN seq}

Chars == Range(AsciiLow) \cup Range(AsciiHigh) \cup {"\t", "\n"}

\* The code point of each character.
OrdTable ==
    [c \in Chars |->
        CASE c = "\t" -> 9
          [] c = "\n" -> 10
          [] c \in Range(AsciiLow) -> 31 + (CHOOSE i \in DOMAIN AsciiLow : AsciiLow[i] = c)
          [] OTHER -> 96 + (CHOOSE i \in DOMAIN AsciiHigh : AsciiHigh[i] = c)]

UpperTable ==
    [c \in Chars |->
        IF c \in Range(LowerLetters)
        THEN UpperLetters[CHOOSE i \in DOMAIN LowerLetters : LowerLetters[i] = c]
        ELSE c]

LowerTable ==
    [c \in Chars |->
        IF c \in Range(UpperLetters)
        THEN LowerLetters[CHOOSE i \in DOMAIN UpperLetters : UpperLetters[i] = c]
        ELSE c]

Ord(c) == OrdTable[c]
UpperChar(c) == UpperTable[c]
LowerChar(c) == LowerTable[c]

\* str.upper() and str.lower()
Upper(s) == [i \in DOMAIN s |-> UpperChar(s[i])]
Lower(s) == [i \in DOMAIN s |-> LowerChar(s[i])]

IsSpace(c) == c \in {" ", "\t", "\n"}

RECURSIVE LStrip(_)
LStrip(s) == IF s # <<>> /\ IsSpace(Head(s)) THEN LStrip(Tail(s)) ELSE s

RECURSIVE RStrip(_)
RStrip(s) ==
    IF s # <<>> /\ IsSpace(s[Len(s)]) THEN RStrip(SubSeq(s, 1, Len(s) - 1)) ELSE s

\* str.strip()
Strip(s) == RStrip(LStrip(s))

\* `needle in haystack` for two strings
Contains(haystack, needle) ==
    \E i \in 1..(Len(haystack) - Len(needle) + 1) :
        SubSeq(haystack, i, i + Len(needle) - 1) = needle

RECURSIVE NatToStr(_)
NatToStr(n) ==
    IF n < 10 THEN <<Digits[n + 1]>>
    ELSE NatToStr(n \div 10) \o <<Digits[(n % 10) + 1]>>

\* str(v) for the values a status payload field holds.
Str(v) ==
    CASE v.t = "null" -> <<"N","o","n","e">>
      [] v.t = "bool" -> IF v.b THEN <<"T","r","u","e">> ELSE <<"F","a","l","s","e">>
      [] v.t = "num"  -> IF v.n < 0 THEN <<"-">> \o NatToStr(-v.n) ELSE NatToStr(v.n)
      [] v.t = "str"  -> v.s

----------------------------------------------------------------------------
(* extract_vid_pid *)

\* [0-9A-Fa-f]
HexDigits ==
    Range(Digits) \cup {"a","b","c","d","e","f","A","B","C","D","E","F"}

IsHexDigit(c) == c \in HexDigits

\* The pattern  <prefix>([0-9A-Fa-f]{4})  under re.IGNORECASE matches at i.
MatchesAt(prefix, s, i) ==
    /\ i + Len(prefix) + 3 <= Len(s)
    /\ \A k \in 1..Len(prefix) : UpperChar(s[i + k - 1]) = UpperChar(prefix[k])
    /\ \A k \in 0..3 : IsHexDigit(s[i + Len(prefix) + k])

\* re.search: the leftmost match, scanning from position i; group(1) or None.
RECURSIVE ReSearchFrom(_, _, _)
ReSearchFrom(prefix, s, i) ==
    IF i > Len(s) THEN PyNone
    ELSE IF MatchesAt(prefix, s, i)
         THEN PyString(SubSeq(s, i + Len(prefix), i + Len(prefix) + 3))
         ELSE ReSearchFrom(prefix, s, i + 1)

ReSearch(prefix, s) == ReSearchFrom(prefix, s, 1)

\* m.group(1).upper() if m else None
GroupUpper(m) == IF m.t = "str" THEN PyString(Upper(m.s)) ELSE PyNone

\* A mutant of extract_vid_pid: the groups are returned as written.
extract_vid_pid_noupper(id_string) ==
    <<ReSearch(<<"V","I","D","_">>, id_string), ReSearch(<<"P","I","D","_">>, id_string)>>

\* A mutant of extract_vid_pid: the product id is searched with the VID_ pattern.
extract_vid_pid_samepattern(id_string) ==
    LET vid_match == ReSearch(<<"V","I","D","_">>, id_string)
    IN  <<GroupUpper(vid_match), GroupUpper(vid_match)>>

extract_vid_pid(id_string) ==
    LET vid_match == ReSearch(<<"V","I","D","_">>, id_string)
        pid_match == ReSearch(<<"P","I","D","_">>, id_string)
    IN  <<GroupUpper(vid_match), GroupUpper(pid_match)>>

\* f"{vid}:{pid}" if (vid and pid) else None
DeviceKeyOf(vid, pid) ==
    IF Truthy(vid) /\ Truthy(pid) THEN PyString(vid.s \o <<":">> \o pid.s) ELSE PyNone

----------------------------------------------------------------------------
(* get_device_status *)

\* What run_as_admin hands back as stdout: nothing, text that is not JSON, or
\* the text of a JSON document (held decoded; json.loads yields `value`).
StdoutEmpty == [kind |-> "empty"]
StdoutGarbage == [kind |-> "garbage"]
StdoutJson(v) == [kind |-> "json", value |-> v]

Str22 == <<"2","2">>
Str0 == <<"0">>
StrOK == <<"O","K">>

Returned(status, diag) == [status |-> status, raised |-> FALSE, diag |-> diag]
Raised(exc) == [status |-> "none", raised |-> TRUE, diag |-> exc]

\* A mutant of classify_props: the error code is looked at before Present.
classify_props_code_first(device_props) ==
    LET present_status == DictGet(device_props, "Present", PyNone)
        config_manager_error_code ==
            Strip(Str(DictGet(device_props, "ConfigManagerErrorCode", PyString(<<>>))))
        status_text == Upper(Strip(Str(DictGet(device_props, "Status", PyString(<<>>)))))
    IN  IF config_manager_error_code = Str22 THEN "disabled"
        ELSE IF config_manager_error_code = Str0 THEN "enabled"
        ELSE IF present_status = PyBool(FALSE) THEN "disabled"
        ELSE IF Contains(status_text, StrOK) THEN "enabled"
        ELSE "unknown"

\* A mutant of classify_props: the status text is looked at before the codes.
classify_props_text_first(device_props) ==
    LET present_status == DictGet(device_props, "Present", PyNone)
        config_manager_error_code ==
            Strip(Str(DictGet(device_props, "ConfigManagerErrorCode", PyString(<<>>))))
        status_text == Upper(Strip(Str(DictGet(device_props, "Status", PyString(<<>>)))))
    IN  IF present_status = PyBool(FALSE) THEN "disabled"
        ELSE IF Contains(status_text, StrOK) THEN "enabled"
        ELSE IF config_manager_error_code = Str22 THEN "disabled"
        ELSE IF config_manager_error_code = Str0 THEN "enabled"
        ELSE "unknown"

\* Lines 227-242, on a dict: Present, then ConfigManagerErrorCode, then Status.
classify_props(device_props) ==
    LET present_status == DictGet(device_props, "Present", PyNone)
        config_manager_error_code ==
            Strip(Str(DictGet(device_props, "ConfigManagerErrorCode", PyString(<<>>))))
        status_text == Upper(Strip(Str(DictGet(device_props, "Status", PyString(<<>>)))))
    IN  IF present_status = PyBool(FALSE) THEN "disabled"      \* `is False`
        ELSE IF config_manager_error_code = Str22 THEN "disabled"
        ELSE IF config_manager_error_code = Str0 THEN "enabled"
        ELSE IF Contains(status_text, StrOK) THEN "enabled"
        ELSE "unknown"

\* Lines 214-242, the body of the try: the outcome is a return or an exception.
status_try_body(stdout) ==
    IF stdout.kind = "garbage" THEN Raised("JSONDecodeError")
    ELSE
        LET loaded == stdout.value
            nonEmptyList == loaded.t = "list" /\ Len(loaded.items) > 0
        IN  IF ~nonEmptyList /\ loaded.t # "obj"
            THEN Returned("unknown", "print")
            ELSE
                LET device_props == IF nonEmptyList THEN loaded.items[1] ELSE loaded
                IN  IF device_props.t # "obj"
                    THEN Raised("AttributeError")   \* .get of a non-dict
                    ELSE Returned(classify_props(device_props), "none")

\* A mutant of status_except: only the JSONDecodeError handler is there.
status_except_json_only(outcome) ==
    IF outcome.raised /\ outcome.diag = "JSONDecodeError"
    THEN Returned("unknown", "messagebox")
    ELSE outcome

\* A mutant of status_except: no handler is there, the exception goes on.
status_except_none(outcome) == outcome

\* Lines 244-251: except json.JSONDecodeError, except Exception.
status_except(outcome) ==
    IF outcome.raised THEN Returned("unknown", "messagebox") ELSE outcome

get_device_status(returncode, stdout) ==
    IF returncode = 0 /\ stdout.kind # "empty"
    THEN status_except(status_try_body(stdout))
    ELSE Returned("unknown", "print")

----------------------------------------------------------------------------
(* get_input_devices_by_instance_id_pattern *)

\* a < b for two Python strings: lexicographic by code point.
RECURSIVE StrLess(_, _)
StrLess(a, b) ==
    IF b = <<>> THEN FALSE
    ELSE IF a = <<>> THEN TRUE
    ELSE IF Ord(Head(a)) # Ord(Head(b)) THEN Ord(Head(a)) < Ord(Head(b))
    ELSE StrLess(Tail(a), Tail(b))

\* A mutant of SortKey: the names are compared as written.
SortKeyCaseSensitive(dev) == dev.display_name

\* key=lambda x: x["display_name"].lower()
SortKey(dev) == Lower(dev.display_name)

\* Insert dev after every entry whose key is not greater than its own.
RECURSIVE InsertSorted(_, _)
InsertSorted(sorted, dev) ==
    IF sorted = <<>> THEN <<dev>>
    ELSE IF StrLess(SortKey(dev), SortKey(Head(sorted)))
         THEN <<dev>> \o sorted
         ELSE <<Head(sorted)>> \o InsertSorted(Tail(sorted), dev)

\* list.sort(key=...): a stable sort, so the result is that of inserting the
\* entries one by one, each after its equals.
RECURSIVE SortDevices(_)
SortDevices(devices_list) ==
    IF devices_list = <<>> THEN <<>>
    ELSE InsertSorted(SortDevices(SubSeq(devices_list, 1, Len(devices_list) - 1)),
                      devices_list[Len(devices_list)])

\* Lines 328-332: HardwareId as a list; a lone string becomes a one-element list.
HardwareIds(dev_info) ==
    LET hardware_ids == DictGet(dev_info, "HardwareId", PyList(<<>>))
    IN  IF hardware_ids.t = "str" THEN PyList(<<hardware_ids>>) ELSE hardware_ids

\* Lines 342-345: the loop over the hardware ids; `last` is the (vid, pid) held
\* when the loop is at hwids; the loop breaks at the first full pair.
RECURSIVE HardwareIdLoop(_, _)
HardwareIdLoop(hwids, last) ==
    IF hwids = <<>> THEN last
    ELSE LET r == extract_vid_pid(Head(hwids).s)
         IN  IF Truthy(r[1]) /\ Truthy(r[2]) THEN r ELSE HardwareIdLoop(Tail(hwids), r)

\* The loop of a mutant of RecordVidPid: it never breaks, and the last full pair wins.
RECURSIVE HardwareIdLoopNoBreak(_, _)
HardwareIdLoopNoBreak(hwids, last) ==
    IF hwids = <<>> THEN last
    ELSE LET r == extract_vid_pid(Head(hwids).s)
         IN  HardwareIdLoopNoBreak(Tail(hwids), IF Truthy(r[1]) /\ Truthy(r[2]) THEN r ELSE last)

RecordVidPidLastWins(instance_id, hardware_ids) ==
    LET fromId == IF Truthy(instance_id)
                  THEN extract_vid_pid(instance_id.s)
                  ELSE <<PyNone, PyNone>>
    IN  IF Truthy(hardware_ids)
        THEN HardwareIdLoopNoBreak(hardware_ids.items, fromId)
        ELSE fromId

\* Lines 334-345: (vid, pid) of a record, from InstanceId first.
RecordVidPid(instance_id, hardware_ids) ==
    LET fromId == IF Truthy(instance_id)
                  THEN extract_vid_pid(instance_id.s)
                  ELSE <<PyNone, PyNone>>
    IN  IF ~(Truthy(fromId[1]) /\ Truthy(fromId[2])) /\ Truthy(hardware_ids)
        THEN HardwareIdLoop(hardware_ids.items, fromId)
        ELSE fromId

\* A mutant of DbGet: the database is never consulted.
DbGetNothing(device_database, device_key) == PyNone

\* device_database.get(device_key)
DbGet(device_database, device_key) ==
    IF device_key \in DOMAIN device_database THEN device_database[device_key] ELSE PyNone

\* A mutant of DisplayName: the description is preferred to the friendly name.
DisplayNameDescriptionFirst(dev_info, instance_id, device_key, device_database) ==
    LET custom_name == IF Truthy(device_key)
                       THEN DbGet(device_database, device_key.s)
                       ELSE PyNone
        name == IF Truthy(custom_name) THEN custom_name
                ELSE PyOr(DictGet(dev_info, "DeviceDescription", PyNone),
                          PyOr(DictGet(dev_info, "FriendlyName", PyNone), instance_id))
    IN  IF Truthy(device_key)
        THEN PyString(Str(name) \o <<" ","[">> \o device_key.s \o <<"]">>)
        ELSE name

\* A mutant of DisplayName: there is no fallback to the InstanceId.
DisplayNameNoIdFallback(dev_info, instance_id, device_key, device_database) ==
    LET custom_name == IF Truthy(device_key)
                       THEN DbGet(device_database, device_key.s)
                       ELSE PyNone
        name == IF Truthy(custom_name) THEN custom_name
                ELSE PyOr(DictGet(dev_info, "FriendlyName", PyNone),
                          PyOr(DictGet(dev_info, "DeviceDescription", PyNone),
                               PyString(<<>>)))
    IN  IF Truthy(device_key)
        THEN PyString(Str(name) \o <<" ","[">> \o device_key.s \o <<"]">>)
        ELSE name

\* Lines 348-361: the custom name, else FriendlyName, else DeviceDescription,
\* else the InstanceId; then " [VID:PID]" when there is a key.
DisplayName(dev_info, instance_id, device_key, device_database) ==
    LET custom_name == IF Truthy(device_key)
                       THEN DbGet(device_database, device_key.s)
                       ELSE PyNone
        name == IF Truthy(custom_name) THEN custom_name
                ELSE PyOr(DictGet(dev_info, "FriendlyName", PyNone),
                          PyOr(DictGet(dev_info, "DeviceDescription", PyNone), instance_id))
    IN  IF Truthy(device_key)
        THEN PyString(Str(name) \o <<" ","[">> \o device_key.s \o <<"]">>)
        ELSE name

\* Lines 328-371: the entry built from one record.
DeviceEntry(dev_info, instance_id, device_database) ==
    LET hardware_ids == HardwareIds(dev_info)
        vp == RecordVidPid(instance_id, hardware_ids)
        device_key == DeviceKeyOf(vp[1], vp[2])
        final_display_name == DisplayName(dev_info, instance_id, device_key, device_database)
    IN  [display_name |-> final_display_name.s,
         id |-> instance_id.s,
         hardware_id |-> hardware_ids,
         vid_pid_key |-> device_key,
         full_info |-> dev_info]

\* A mutant of IsDuplicate: no InstanceId is taken to have been seen.
IsDuplicateNever(instance_id, seen_ids) == FALSE

\* Line 322: instance_id in seen_ids
IsDuplicate(instance_id, seen_ids) == instance_id \in seen_ids

\* Lines 318-371: the loop over json_data. A dev_info that is no dict makes
\* dev_info.get raise AttributeError, which no handler of the function catches.
RECURSIVE DeviceLoop(_, _, _, _)
DeviceLoop(json_data, device_database, devices_list, seen_ids) ==
    IF json_data = <<>> THEN [raised |-> FALSE, devices |-> devices_list]
    ELSE
        LET dev_info == Head(json_data)
        IN  IF dev_info.t # "obj" THEN [raised |-> TRUE, devices |-> devices_list]
            ELSE
                LET instance_id == DictGet(dev_info, "InstanceId", PyNone)
                IN  IF IsDuplicate(instance_id, seen_ids)
                    THEN DeviceLoop(Tail(json_data), device_database, devices_list, seen_ids)
                    ELSE DeviceLoop(
                            Tail(json_data), device_database,
                            IF Truthy(instance_id)
                            THEN Append(devices_list,
                                        DeviceEntry(dev_info, instance_id, device_database))
                            ELSE devices_list,
                            seen_ids \cup {instance_id})

\* The outcome of a call: the list returned, or an exception.
DevicesReturned(devices, diag) == [raised |-> FALSE, devices |-> devices, diag |-> diag]
DevicesRaised == [raised |-> TRUE, devices |-> <<>>, diag |-> "AttributeError"]

get_input_devices_by_instance_id_pattern(returncode, stdout, device_database) ==
    IF returncode = 0 /\ stdout.kind # "empty"
    THEN IF stdout.kind = "garbage"
         THEN DevicesReturned(SortDevices(<<>>), "messagebox")   \* JSONDecodeError
         ELSE LET json_data == IF stdout.value.t # "list"
                               THEN <<stdout.value>>
                               ELSE stdout.value.items
                  looped == DeviceLoop(json_data, device_database, <<>>, {})
              IN  IF looped.raised THEN DevicesRaised
                  ELSE DevicesReturned(SortDevices(looped.devices), "none")
    ELSE DevicesReturned(SortDevices(<<>>), "messagebox")

----------------------------------------------------------------------------
(* SpecKey: extract_vid_pid applied to identifier strings *)

MaxSegments == 4

\* The pieces identifier strings are put together from.
Segments ==
    { <<"V","I","D","_">>, <<"v","I","d","_">>, <<"P","I","D","_">>,
      <<"p","i","d","_","c","d","3","4">>,
      <<"A","B","1","2">>, <<"1","2">>, <<"a","b">>, <<"5">>, <<"G">>, <<"&">> }

RECURSIVE Concat(_)
Concat(ss) == IF ss = <<>> THEN <<>> ELSE Head(ss) \o Concat(Tail(ss))

SeqsUpTo(S, n) == UNION {[1..k -> S] : k \in 0..n}

IdStrings == {Concat(ss) : ss \in SeqsUpTo(Segments, MaxSegments)}

StatusIdle == statusQuery = Pending /\ statusResult = Pending
KeyIdle == idString = <<>> /\ keyResult = Pending
DirIdle == enumQuery = Pending /\ enumDb = <<>> /\ enumResult = Pending

\* The application before UsbDeviceControllerApp is constructed.
AppIdle ==
    /\ device_db = <<>>
    /\ db_file = [kind |-> "missing"]
    /\ available_devices = <<>>
    /\ current_selected_device_id = PyNone
    /\ combobox_values = <<>>
    /\ selected_device_name = <<>>
    /\ status_label_text = "Nieznany"
    /\ buttons_state = "disabled"
    /\ ui = [mode |-> "not_started"]
    /\ workers = EmptyBag
    /\ after_queue = <<>>
    /\ disabled_devices = {}
    /\ user_actions = 0

InitKey ==
    /\ idString \in IdStrings
    /\ keyResult = Pending
    /\ StatusIdle
    /\ DirIdle
    /\ AppIdle

\* One call of extract_vid_pid(idString).
ExtractStep ==
    /\ keyResult = Pending
    /\ LET r == extract_vid_pid(idString)
       IN  keyResult' = [t |-> "pair", vid |-> r[1], pid |-> r[2]]
    /\ UNCHANGED <<idString, statusVars, dirVars, appVars>>

NextKey == ExtractStep

SpecKey == InitKey /\ [][NextKey]_vars

----------------------------------------------------------------------------
(* SpecStatus: get_device_status applied to query outcomes *)

Absent == [t |-> "absent"]

PresentOptions ==
    {Absent, PyNone, PyBool(TRUE), PyBool(FALSE), PyNum(0), PyString(<<"F","a","l","s","e">>)}

CodeOptions ==
    {Absent, PyNone, PyNum(0), PyNum(22), PyNum(28), PyNum(220),
     PyString(<<"2","2">>), PyString(<<" ","2","2","\n">>), PyString(<<"0","2","2">>)}

StatusOptions ==
    {Absent, PyNone, PyString(<<"O","K">>), PyString(<<" ","o","k"," ">>),
     PyString(<<"E","r","r","o","r">>), PyString(<<"U","n","k","n","o","w","n">>),
     PyString(<<"N","o","t"," ","O","k","a","y">>)}

\* The dict with the given fields; an Absent field is left out.
Props(p, c, s) ==
    LET given == [k \in {"Present", "ConfigManagerErrorCode", "Status"} |->
                     CASE k = "Present" -> p
                       [] k = "ConfigManagerErrorCode" -> c
                       [] k = "Status" -> s]
    IN  PyDict([k \in {k \in DOMAIN given : given[k] # Absent} |-> given[k]])

PropsUniverse ==
    {Props(p, c, s) : p \in PresentOptions, c \in CodeOptions, s \in StatusOptions}

\* Decoded documents that are not a dict or a list starting with one.
Misshapen ==
    { PyNone, PyBool(FALSE), PyNum(22), PyString(StrOK), PyList(<<>>),
      PyList(<<PyNum(0)>>), PyList(<<PyNone>>), PyList(<<PyString(StrOK)>>),
      PyList(<<PyList(<<>>)>>), PyList(<<PyBool(FALSE), Props(PyBool(FALSE), Absent, Absent)>>) }

JsonDocuments ==
    PropsUniverse \cup {PyList(<<d>>) : d \in PropsUniverse}
        \cup {PyList(<<d, PyNum(0)>>) : d \in PropsUniverse} \cup Misshapen

Stdouts == {StdoutEmpty, StdoutGarbage} \cup {StdoutJson(v) : v \in JsonDocuments}

ReturnCodes == {0, 1, -1}

InitStatus ==
    /\ statusQuery \in [returncode : ReturnCodes, stdout : Stdouts]
    /\ statusResult = Pending
    /\ KeyIdle
    /\ DirIdle
    /\ AppIdle

\* One call of get_device_status on the outcome statusQuery.
StatusStep ==
    /\ statusQuery # Pending
    /\ statusResult = Pending
    /\ LET r == get_device_status(statusQuery.returncode, statusQuery.stdout)
       IN  statusResult' = [t |-> "outcome", status |-> r.status,
                            raised |-> r.raised, diag |-> r.diag]
    /\ UNCHANGED <<keyVars, statusQuery, dirVars, appVars>>

NextStatus == StatusStep

SpecStatus == InitStatus /\ [][NextStatus]_vars

----------------------------------------------------------------------------
(* SpecDir: the enumeration applied to Get-PnpDevice outputs *)

MaxRecords == 3

IdA0 == <<"U","S","B","\\","V","I","D","_","1","2","3","4","&","P","I","D","_","A","B","C","D","\\","0">>
IdA1 == <<"u","s","b","\\","v","i","d","_","1","2","3","4","&","p","i","d","_","a","b","c","d","\\","1">>
IdA4 == <<"U","S","B","\\","V","I","D","_","1","2","3","4","&","P","I","D","_","A","B","C","D","\\","4">>
IdKbd == <<"H","I","D","\\","K","B","D","\\","2">>
IdVidOnly == <<"U","S","B","\\","V","I","D","_","1","2","3","4","\\","3">>

HwNoKey == <<"H","I","D","_","D","E","V","I","C","E">>
HwLogi == <<"H","I","D","\\","V","I","D","_","0","4","6","D","&","P","I","D","_","C","5","2","B">>
HwA == <<"U","S","B","\\","V","I","D","_","1","2","3","4","&","P","I","D","_","A","B","C","D","&","R","E","V","_","0","1">>
HwVidOnly == <<"V","I","D","_","0","4","6","D">>
HwPidOnly == <<"P","I","D","_","C","5","2","B">>

NameMouseX == <<"M","o","u","s","e"," ","X">>
NameMouseXLower == <<"m","o","u","s","e"," ","x">>
NameZebraLower == <<"z","e","b","r","a">>
NameZebra == <<"Z","e","b","r","a">>
NameApple == <<"A","p","p","l","e">>
NameAppleLower == <<"a","p","p","l","e">>
NameMyMouse == <<"M","y"," ","M","o","u","s","e">>

KeyA == <<"1","2","3","4",":","A","B","C","D">>
KeyLogi == <<"0","4","6","D",":","C","5","2","B">>

\* One element of the ConvertTo-Json output: the selected properties
\* DeviceDescription, FriendlyName, InstanceId, HardwareId; Absent leaves one out.
Record(instance_id, friendly, description, hardware) ==
    LET given == [k \in {"InstanceId", "FriendlyName", "DeviceDescription", "HardwareId"} |->
                     CASE k = "InstanceId" -> instance_id
                       [] k = "FriendlyName" -> friendly
                       [] k = "DeviceDescription" -> description
                       [] k = "HardwareId" -> hardware]
    IN  PyDict([k \in {k \in DOMAIN given : given[k] # Absent} |-> given[k]])

StrList(ss) == PyList([i \in DOMAIN ss |-> PyString(ss[i])])

RecordUniverse ==
    { Record(PyString(IdA0), PyString(NameMouseX), Absent, Absent),
      Record(PyString(IdA0), PyString(NameZebraLower), PyString(NameMouseX), StrList(<<HwLogi>>)),
      Record(PyString(IdA1), PyString(NameMouseXLower), PyNone, PyNone),
      Record(PyString(IdA1), Absent, PyString(NameAppleLower), StrList(<<>>)),
      Record(PyString(IdA4), PyString(NameMouseX), PyString(NameZebra), StrList(<<HwA, HwLogi>>)),
      Record(PyString(IdKbd), PyString(NameZebra), Absent, StrList(<<HwNoKey, HwLogi, HwA>>)),
      Record(PyString(IdKbd), PyString(<<>>), PyNone, Absent),
      Record(PyString(IdVidOnly), PyNone, PyString(<<>>), PyString(HwLogi)),
      Record(PyString(IdVidOnly), PyString(NameApple), Absent, StrList(<<HwVidOnly, HwPidOnly>>)),
      Record(PyNone, PyString(NameAppleLower), Absent, Absent) }

\* What the output array may hold: records, and an element that is no object.
ElementUniverse == RecordUniverse \cup {PyNum(0)}

EnumDocuments ==
    {PyList(items) : items \in SeqsUpTo(ElementUniverse, MaxRecords)} \cup ElementUniverse

EnumQueries ==
    {[returncode |-> 0, stdout |-> StdoutJson(d)] : d \in EnumDocuments}
        \cup [returncode : {0, 1, -1},
              stdout : {StdoutEmpty, StdoutGarbage,
                        StdoutJson(PyList(<<Record(PyString(IdA0), Absent, Absent, Absent)>>))}]

\* device_database values: "VID:PID" mapped to a custom name.
DbUniverse ==
    { <<>>,
      (KeyA :> PyString(NameMyMouse)),
      (KeyA :> PyString(NameZebraLower)) @@ (KeyLogi :> PyString(NameApple)),
      (KeyA :> PyString(<<>>)) }

InitDir ==
    /\ enumQuery \in EnumQueries
    /\ enumDb \in DbUniverse
    /\ enumResult = Pending
    /\ KeyIdle
    /\ StatusIdle
    /\ AppIdle

\* One call of get_input_devices_by_instance_id_pattern(enumDb).
EnumStep ==
    /\ enumQuery # Pending
    /\ enumResult = Pending
    /\ LET r == get_input_devices_by_instance_id_pattern(
                    enumQuery.returncode, enumQuery.stdout, enumDb)
       IN  enumResult' = [t |-> "outcome", raised |-> r.raised,
                          devices |-> r.devices, diag |-> r.diag]
    /\ UNCHANGED <<keyVars, statusVars, enumQuery, enumDb, appVars>>

NextDir == EnumStep

SpecDir == InitDir /\ [][NextDir]_vars

----------------------------------------------------------------------------
(* The name-override store: load_device_database, save_device_database,
   _save_custom_name *)

\* A mutant of JsonEscape: no character is escaped.
JsonEscapeNothing(c) == <<c>>

\* json.dump, line 68: how a character of a string is written (ensure_ascii;
\* the characters of the model need no \uXXXX escape).
JsonEscape(c) ==
    CASE c = "\"" -> <<"\\", "\"">>
      [] c = "\\" -> <<"\\", "\\">>
      [] c = "\n" -> <<"\\", "n">>
      [] c = "\t" -> <<"\\", "t">>
      [] OTHER    -> <<c>>

\* json.dump, line 68: a string between double quotes.
JsonString(s) == <<"\"">> \o Concat([i \in DOMAIN s |-> JsonEscape(s[i])]) \o <<"\"">>

\* The keys of a store in the order they are written. A dict is written in
\* insertion order, which a function does not keep: ascending order stands
\* for it.
RECURSIVE KeysInOrder(_)
KeysInOrder(S) ==
    IF S = {} THEN <<>>
    ELSE LET first == CHOOSE k \in S : \A o \in S \ {k} : StrLess(k, o)
         IN  <<first>> \o KeysInOrder(S \ {first})

\* json.dump(db, f, indent=4), line 68, for a dict of strings: one
\* "key": "value" pair on a line, indented, pairs separated by commas.
json_dump(db) ==
    IF DOMAIN db = {} THEN <<"{", "}">>
    ELSE LET keys == KeysInOrder(DOMAIN db)
             JsonIndent == <<" ", " ", " ", " ">>
             Pair(i) == (IF i = 1 THEN <<>> ELSE <<",">>) \o <<"\n">> \o JsonIndent
                        \o JsonString(keys[i]) \o <<":", " ">> \o JsonString(db[keys[i]].s)
         IN  <<"{">> \o Concat([i \in DOMAIN keys |-> Pair(i)]) \o <<"\n", "}">>

\* json.load, line 55: the index of the first character at or after i that is
\* no white space, Len(text) + 1 if there is none.
RECURSIVE JsonSkip(_, _)
JsonSkip(text, i) ==
    IF i <= Len(text) /\ IsSpace(text[i]) THEN JsonSkip(text, i + 1) ELSE i

JsonFailed == [ok |-> FALSE]

\* json.load, line 55: the string whose first character is text[i], the
\* opening quote already read, and the index after its closing quote.
RECURSIVE JsonScanString(_, _, _)
JsonScanString(text, i, acc) ==
    IF i > Len(text) THEN JsonFailed
    ELSE IF text[i] = "\"" THEN [ok |-> TRUE, s |-> acc, next |-> i + 1]
    ELSE IF text[i] \in {"\n", "\t"} THEN JsonFailed     \* a control character
    ELSE IF text[i] # "\\" THEN JsonScanString(text, i + 1, Append(acc, text[i]))
    ELSE IF i + 1 > Len(text) THEN JsonFailed
    ELSE IF text[i + 1] \in {"\"", "\\", "/"}
         THEN JsonScanString(text, i + 2, Append(acc, text[i + 1]))
    ELSE IF text[i + 1] = "n" THEN JsonScanString(text, i + 2, Append(acc, "\n"))
    ELSE IF text[i + 1] = "t" THEN JsonScanString(text, i + 2, Append(acc, "\t"))
    ELSE JsonFailed

\* json.load, line 55: the members of an object of strings from text[i] on,
\* added to acc; a key read again replaces the value read before. Nothing but
\* white space may follow the closing brace.
RECURSIVE JsonScanMembers(_, _, _)
JsonScanMembers(text, i, acc) ==
    IF i > Len(text) \/ text[i] # "\"" THEN JsonFailed
    ELSE LET k == JsonScanString(text, i + 1, <<>>)
         IN  IF ~k.ok THEN JsonFailed
             ELSE LET colon == JsonSkip(text, k.next)
                      quote == JsonSkip(text, colon + 1)
                  IN  IF colon > Len(text) \/ text[colon] # ":" THEN JsonFailed
                      ELSE IF quote > Len(text) \/ text[quote] # "\"" THEN JsonFailed
                      ELSE LET v == JsonScanString(text, quote + 1, <<>>)
                           IN  IF ~v.ok THEN JsonFailed
                               ELSE LET e == JsonSkip(text, v.next)
                                        members == (k.s :> PyString(v.s)) @@ acc
                                    IN  IF e > Len(text) THEN JsonFailed
                                        ELSE IF text[e] = ","
                                             THEN JsonScanMembers(text, JsonSkip(text, e + 1),
                                                                  members)
                                        ELSE IF text[e] = "}" /\ JsonSkip(text, e + 1) > Len(text)
                                             THEN [ok |-> TRUE, value |-> members]
                                        ELSE JsonFailed

\* json.load, line 55, for a text that is an object of strings or no JSON.
json_load(text) ==
    LET i == JsonSkip(text, 1)
    IN  IF i > Len(text) \/ text[i] # "{" THEN JsonFailed
        ELSE LET j == JsonSkip(text, i + 1)
             IN  IF j <= Len(text) /\ text[j] = "}"
                 THEN IF JsonSkip(text, j + 1) > Len(text)
                      THEN [ok |-> TRUE, value |-> <<>>]
                      ELSE JsonFailed
                 ELSE JsonScanMembers(text, j, <<>>)

\* device_names.json: missing, not decodable, or a JSON object. FileText is
\* the file given by its characters; FileJson(db) is a file given by what
\* json.load makes of it.
FileMissing == [kind |-> "missing"]
FileCorrupt == [kind |-> "corrupt"]
FileJson(db) == [kind |-> "json", value |-> db]
FileText(text) == [kind |-> "text", text |-> text]

\* Lines 47-62: the decoded file, or {} when it is missing or cannot be decoded.
load_device_database(file) ==
    IF file.kind = "json" THEN file.value
    ELSE IF file.kind = "text" /\ json_load(file.text).ok THEN json_load(file.text).value
    ELSE <<>>

\* Lines 64-72: what the file holds after save_device_database(db). The write
\* succeeds, or open() fails and the file is as before, or the write fails
\* after open() has truncated the file. A failure is printed, never raised.
save_device_database(file, db) == {FileJson(db), file, FileCorrupt}

\* Lines 66-68: the file after a save_device_database(db) that succeeds.
FileWritten(db) == FileText(json_dump(db))

\* Names with the characters json.dump escapes, and one that reads as JSON.
NameQuoted == <<"M", "y", " ", "\"", "X", "\"">>
NameBackslash == <<"C", ":", "\\", "n", "e", "w", "\\">>

StoreKeys == {KeyA, KeyLogi, NameQuoted}
StoreNames ==
    { <<>>, NameApple, NameQuoted, NameBackslash, <<"a", "\n", "\t", "b">>,
      <<"{", "\"", "k", "\"", ":", " ", "\"", "v", "\"", "}", ",">> }

\* The flat stores of strings over StoreKeys and StoreNames.
StoreUniverse ==
    UNION {[keys -> {PyString(n) : n \in StoreNames}] : keys \in SUBSET StoreKeys}

\* Files not written by json.dump: one line without spaces, a key given
\* twice, an escaped slash and spaces around, a text cut short.
HandWrittenFiles ==
    { FileText(<<"{">> \o JsonString(KeyA) \o <<":">> \o JsonString(NameApple) \o <<"}">>),
      FileText(<<"{">> \o JsonString(KeyA) \o <<":">> \o JsonString(NameApple) \o <<",">>
               \o JsonString(KeyA) \o <<":">> \o JsonString(NameQuoted) \o <<"}">>),
      FileText(<<" ", "{", " ", "\"", "a", "\\", "/", "b", "\"", " ", ":", "\n", "\"", "\"",
                 "\t", "}", "\n">>),
      FileText(<<"{">> \o JsonString(KeyA) \o <<":">>) }

InitStore ==
    /\ \/ device_db \in StoreUniverse /\ db_file = FileMissing
       \/ device_db = <<>> /\ db_file \in HandWrittenFiles
    /\ available_devices = <<>>
    /\ current_selected_device_id = PyNone
    /\ combobox_values = <<>>
    /\ selected_device_name = <<>>
    /\ status_label_text = "Nieznany"
    /\ buttons_state = "disabled"
    /\ ui = [mode |-> "not_started"]
    /\ workers = EmptyBag
    /\ after_queue = <<>>
    /\ disabled_devices = {}
    /\ user_actions = 0
    /\ KeyIdle
    /\ StatusIdle
    /\ DirIdle

\* One call of save_device_database(device_db) that succeeds.
SaveStoreStep ==
    /\ db_file' = FileWritten(device_db)
    /\ UNCHANGED <<keyVars, statusVars, dirVars, device_db, guiVars, ui, workers,
                   after_queue, disabled_devices, user_actions>>

\* One call of load_device_database().
LoadStoreStep ==
    /\ device_db' = load_device_database(db_file)
    /\ UNCHANGED <<keyVars, statusVars, dirVars, db_file, guiVars, ui, workers,
                   after_queue, disabled_devices, user_actions>>

NextStore == SaveStoreStep \/ LoadStoreStep

SpecStore == InitStore /\ [][NextStore]_vars

\* A mutant of SaveCustomNameDb: a removal empties the store.
SaveCustomNameDbClears(db, new_name, device_key) ==
    IF new_name # <<>> THEN (device_key :> PyString(new_name)) @@ db
    ELSE <<>>

\* Lines 737-746: self.device_db after _save_custom_name(new_name, device_key).
SaveCustomNameDb(db, new_name, device_key) ==
    IF new_name # <<>> THEN (device_key :> PyString(new_name)) @@ db
    ELSE IF device_key \in DOMAIN db THEN [k \in DOMAIN db \ {device_key} |-> db[k]]
    ELSE db

\* A mutant of SaveCustomNameProceeds: the call always saves and refreshes.
SaveCustomNameProceedsAlways(db, new_name, device_key) == TRUE

\* Lines 744-746 are not taken: the call goes on to save and to refresh.
SaveCustomNameProceeds(db, new_name, device_key) ==
    new_name # <<>> \/ device_key \in DOMAIN db

----------------------------------------------------------------------------
(* Spec: UsbDeviceControllerApp *)

MaxUserActions == 2
MaxInFlight == 2

\* Stands for "Brak urządzeń wejściowych do wyboru", the combobox text when
\* no device is selected after a refresh.
NoDevicesText == <<"B","r","a","k"," ","u","r","z","a","d","z","e","n">>

AppRecA0 == Record(PyString(IdA0), PyString(NameMouseX), Absent, Absent)
AppRecA4 == Record(PyString(IdA4), PyString(NameMouseX), Absent, StrList(<<HwA>>))
AppRecKbd == Record(PyString(IdKbd), PyString(NameZebra), Absent, StrList(<<HwNoKey, HwLogi>>))

\* What the Get-PnpDevice enumeration may answer while the application runs.
AppEnumQueries ==
    { [returncode |-> 0, stdout |-> StdoutJson(AppRecA0)],
      [returncode |-> 0, stdout |-> StdoutJson(PyList(<<AppRecKbd, AppRecA4, AppRecA0>>))],
      [returncode |-> 0, stdout |-> StdoutEmpty],
      [returncode |-> 1, stdout |-> StdoutEmpty],
      [returncode |-> 0, stdout |-> StdoutJson(PyList(<<AppRecA0, PyNum(0)>>))] }

\* What the status query for device_id may answer: the device's state, or a
\* failed command, or output that cannot be decoded.
AppStatusQueries(device_id) ==
    { [returncode |-> 0,
       stdout |-> StdoutJson(IF device_id \in disabled_devices
                             THEN Props(PyBool(FALSE), PyNum(22), PyString(<<"E","r","r","o","r">>))
                             ELSE Props(PyBool(TRUE), PyNum(0), PyString(StrOK)))],
      [returncode |-> 1, stdout |-> StdoutEmpty],
      [returncode |-> 0, stdout |-> StdoutGarbage] }

\* What the user may type into the edit-name dialog.
NameInputs == {<<>>, <<" ">>, <<" ","M","y"," ","M","o","u","s","e"," ">>}

\* What device_names.json may hold when the application starts.
\* The last is a file edited by hand: json.load accepts any keys and values.
KeyLowerCase == <<"1","2","3","4",":","a","b","c","d">>

AppFiles ==
    { FileMissing,
      FileJson((KeyA :> PyString(NameZebraLower)) @@ (KeyLogi :> PyString(NameApple))),
      FileJson((KeyLowerCase :> PyString(NameApple)) @@ (KeyA :> PyString(<<>>))) }

PopulateWorker(old_selected_id) ==
    [kind |-> "populate", pc |-> "run", old_selected_id |-> old_selected_id]
StatusWorker(device_id) ==
    [kind |-> "status", pc |-> "run", device_id |-> device_id]

Spawn(w) == workers (+) SetToBag({w})
Retire(w) == workers (-) SetToBag({w})

\* The Tk main thread runs its event loop: plainly, or nested in wait_window
\* of the edit dialog, or nested in a message box.
InEventLoop == ui.mode \in {"idle", "dialog", "save_msgbox", "toggle_msgbox", "warning"}

\* Threads started and not yet answered: running, or with their callback queued.
InFlight == BagCardinality(workers) + Len(after_queue)

UserMayAct ==
    /\ ui.mode = "idle"
    /\ user_actions < MaxUserActions
    /\ InFlight < MaxInFlight

\* next((dev for dev in devices if dev["display_name"] == name), None)
FirstByName(devices, name) ==
    LET at == {i \in DOMAIN devices : devices[i].display_name = name}
    IN  IF at = {} THEN 0 ELSE CHOOSE i \in at : \A j \in at : i <= j

\* next((dev for dev in devices if dev["id"] == id), None)
FirstById(devices, id) ==
    LET at == {i \in DOMAIN devices : devices[i].id = id}
    IN  IF at = {} THEN 0 ELSE CHOOSE i \in at : \A j \in at : i <= j

\* Lines 572-590, update_selected_device_status with self.current_selected_device_id
\* = selected: the label, and the status thread started if a device is selected.
\* The buttons are disabled on both branches.
StatusLabelOnUpdate(selected) == IF Truthy(selected) THEN "Odswiezanie..." ELSE "Nie wybrano"
WorkersOnUpdate(selected) ==
    IF Truthy(selected) THEN Spawn(StatusWorker(selected.s)) ELSE workers

\* Lines 504-513, populate_devices.
populate_devices == Spawn(PopulateWorker(current_selected_device_id))

InitApp ==
    /\ db_file \in AppFiles
    /\ device_db = load_device_database(db_file)
    /\ available_devices = <<>>
    /\ current_selected_device_id = PyNone
    /\ combobox_values = <<>>
    /\ selected_device_name = <<>>
    /\ status_label_text = "Nieznany"
    /\ buttons_state = "disabled"
    /\ ui = [mode |-> "idle"]
    /\ workers = SetToBag({PopulateWorker(PyNone)})
    /\ after_queue = <<>>
    /\ disabled_devices = {}
    /\ user_actions = 0
    /\ KeyIdle /\ StatusIdle /\ DirIdle

\* The refresh button: populate_devices.
RefreshClick ==
    /\ UserMayAct
    /\ workers' = populate_devices
    /\ user_actions' = user_actions + 1
    /\ UNCHANGED <<keyVars, statusVars, dirVars, storeVars, guiVars, ui, after_queue,
                   disabled_devices>>

\* Line 520 in a populate thread: the enumeration runs and its result is
\* assigned to self.available_devices; an exception ends the thread.
PopulateWorkerRun ==
    \E w \in BagToSet(workers) : \E q \in AppEnumQueries :
        /\ w.kind = "populate" /\ w.pc = "run"
        /\ LET r == get_input_devices_by_instance_id_pattern(q.returncode, q.stdout, device_db)
           IN  IF r.raised
               THEN /\ workers' = Retire(w)
                    /\ UNCHANGED available_devices
               ELSE /\ workers' = Retire(w) (+) SetToBag({[w EXCEPT !.pc = "after"]})
                    /\ available_devices' = r.devices
        /\ UNCHANGED <<keyVars, statusVars, dirVars, storeVars, current_selected_device_id,
                       combobox_values, selected_device_name, status_label_text,
                       buttons_state, ui, after_queue, disabled_devices, user_actions>>

\* Line 521 in a populate thread: master.after(0, self._update_populate_gui, old).
PopulateWorkerAfter ==
    \E w \in BagToSet(workers) :
        /\ w.kind = "populate" /\ w.pc = "after"
        /\ after_queue' = Append(after_queue, [fn |-> "_update_populate_gui",
                                               old_selected_id |-> w.old_selected_id])
        /\ workers' = Retire(w)
        /\ UNCHANGED <<keyVars, statusVars, dirVars, storeVars, guiVars, ui,
                       disabled_devices, user_actions>>

\* Line 597 in a status thread: get_device_status(device_id).
StatusWorkerRun ==
    \E w \in {x \in BagToSet(workers) : x.kind = "status" /\ x.pc = "run"} :
      \E q \in AppStatusQueries(w.device_id) :
        /\ LET r == get_device_status(q.returncode, q.stdout)
           IN  IF r.raised
               THEN workers' = Retire(w)
               ELSE workers' = Retire(w) (+) SetToBag({[kind |-> "status", pc |-> "after",
                                                        device_id |-> w.device_id,
                                                        status |-> r.status]})
        /\ UNCHANGED <<keyVars, statusVars, dirVars, storeVars, guiVars, ui, after_queue,
                       disabled_devices, user_actions>>

\* Line 599 in a status thread: master.after(0, self._update_status_gui, status).
StatusWorkerAfter ==
    \E w \in BagToSet(workers) :
        /\ w.kind = "status" /\ w.pc = "after"
        /\ after_queue' = Append(after_queue, [fn |-> "_update_status_gui",
                                               status |-> w.status,
                                               device_id |-> w.device_id])
        /\ workers' = Retire(w)
        /\ UNCHANGED <<keyVars, statusVars, dirVars, storeVars, guiVars, ui,
                       disabled_devices, user_actions>>

\* A mutant of SelectAfterRefresh: the first entry is always selected.
SelectAfterRefreshFirst(devices, old_selected_id) ==
    IF devices # <<>> THEN 1 ELSE 0

\* A mutant of SelectAfterRefresh: nothing is selected after a refresh.
SelectAfterRefreshNothing(devices, old_selected_id) == 0

\* Lines 531-554: the index in devices of the entry to select, 0 for none.
SelectAfterRefresh(devices, old_selected_id) ==
    IF Truthy(old_selected_id) /\ FirstById(devices, old_selected_id.s) # 0
    THEN FirstById(devices, old_selected_id.s)
    ELSE IF devices # <<>> THEN 1
    ELSE 0

\* Lines 523-554, _update_populate_gui(old_selected_id), on the main thread.
UpdatePopulateGui(old_selected_id) ==
    LET sel == SelectAfterRefresh(available_devices, old_selected_id)
    IN  /\ combobox_values' = [i \in DOMAIN available_devices |->
                                  available_devices[i].display_name]
        /\ IF sel # 0
           THEN /\ selected_device_name' = available_devices[sel].display_name
                /\ current_selected_device_id' = PyString(available_devices[sel].id)
                /\ status_label_text' = StatusLabelOnUpdate(PyString(available_devices[sel].id))
                /\ workers' = WorkersOnUpdate(PyString(available_devices[sel].id))
                /\ buttons_state' = "normal"       \* enable_buttons() after the update
           ELSE /\ selected_device_name' = NoDevicesText
                /\ current_selected_device_id' = PyNone
                /\ status_label_text' = "Nie wybrano"
                /\ buttons_state' = "disabled"
                /\ UNCHANGED workers
        /\ UNCHANGED available_devices

\* Lines 601-615, _update_status_gui(status), on the main thread.
UpdateStatusGui(status) ==
    /\ status_label_text' = CASE status = "enabled" -> "Wlaczone"
                              [] status = "disabled" -> "Wylaczone"
                              [] OTHER -> "Nieznany / Problem"
    /\ buttons_state' = "normal"
    /\ UNCHANGED <<available_devices, current_selected_device_id, combobox_values,
                   selected_device_name, workers>>

\* The event loop runs the oldest scheduled callback.
RunCallback ==
    /\ InEventLoop
    /\ after_queue # <<>>
    /\ after_queue' = Tail(after_queue)
    /\ IF Head(after_queue).fn = "_update_populate_gui"
       THEN UpdatePopulateGui(Head(after_queue).old_selected_id)
       ELSE UpdateStatusGui(Head(after_queue).status)
    /\ UNCHANGED <<keyVars, statusVars, dirVars, storeVars, ui, disabled_devices,
                   user_actions>>

\* Lines 556-570, on_device_selected: the user picks the i-th entry of the list.
ComboboxSelect ==
    \E i \in DOMAIN combobox_values :
        /\ UserMayAct
        /\ LET at == FirstByName(available_devices, combobox_values[i])
               selected == IF at # 0 THEN PyString(available_devices[at].id) ELSE PyNone
           IN  /\ selected_device_name' = combobox_values[i]
               /\ current_selected_device_id' = selected
               /\ status_label_text' = StatusLabelOnUpdate(selected)
               /\ buttons_state' = "disabled"
               /\ workers' = WorkersOnUpdate(selected)
        /\ user_actions' = user_actions + 1
        /\ UNCHANGED <<keyVars, statusVars, dirVars, storeVars, available_devices,
                       combobox_values, ui, after_queue, disabled_devices>>

\* Lines 657-669 and 637-652: the disable or enable button. pnputil runs on the
\* main thread; then a message box is shown.
ToggleClick ==
    \E action \in {"disable", "enable"} : \E returncode \in {0, 1} :
        /\ UserMayAct
        /\ buttons_state = "normal"
        /\ IF Truthy(current_selected_device_id)
           THEN /\ ui' = [mode |-> "toggle_msgbox",
                          device_id |-> current_selected_device_id.s,
                          action |-> action, returncode |-> returncode]
                /\ disabled_devices' =
                       IF returncode # 0 THEN disabled_devices
                       ELSE IF action = "disable"
                            THEN disabled_devices \cup {current_selected_device_id.s}
                            ELSE disabled_devices \ {current_selected_device_id.s}
           ELSE /\ returncode = 0
                /\ ui' = [mode |-> "warning"]
                /\ UNCHANGED disabled_devices
        /\ user_actions' = user_actions + 1
        /\ UNCHANGED <<keyVars, statusVars, dirVars, storeVars, guiVars, workers,
                       after_queue>>

\* Line 655: the message box is closed; update_selected_device_status().
ToggleMsgboxClosed ==
    /\ ui.mode = "toggle_msgbox"
    /\ status_label_text' = StatusLabelOnUpdate(current_selected_device_id)
    /\ buttons_state' = "disabled"
    /\ workers' = WorkersOnUpdate(current_selected_device_id)
    /\ ui' = [mode |-> "idle"]
    /\ UNCHANGED <<keyVars, statusVars, dirVars, storeVars, available_devices,
                   current_selected_device_id, combobox_values, selected_device_name,
                   after_queue, disabled_devices, user_actions>>

\* A showwarning box is closed; the handler that showed it returns.
WarningClosed ==
    /\ ui.mode = "warning"
    /\ ui' = [mode |-> "idle"]
    /\ UNCHANGED <<keyVars, statusVars, dirVars, storeVars, guiVars, workers, after_queue,
                   disabled_devices, user_actions>>

\* Lines 671-712, _open_edit_name_dialog: the edit-name button.
EditNameClick ==
    /\ UserMayAct
    /\ buttons_state = "normal"
    /\ LET at == FirstByName(available_devices, selected_device_name)
       IN  IF \/ selected_device_name = <<>>
              \/ selected_device_name = NoDevicesText
              \/ at = 0
              \/ ~Truthy(available_devices[at].vid_pid_key)
           THEN ui' = [mode |-> "warning"]
           ELSE ui' = [mode |-> "dialog", device_key |-> available_devices[at].vid_pid_key.s]
    /\ user_actions' = user_actions + 1
    /\ UNCHANGED <<keyVars, statusVars, dirVars, storeVars, guiVars, workers, after_queue,
                   disabled_devices>>

\* Lines 714-717 and 737-746, save_and_close: new_name is the stripped entry;
\* _save_custom_name changes self.device_db and shows a message box, or
\* returns at once when there is nothing to save or delete. The entry widget
\* lives until dialog.destroy(). store_before records self.device_db as it was
\* when the call began; the program keeps no such copy. dialog_closed_by
\* records how the dialog was left when nothing was stored.
SaveAndClose ==
    \E typed \in NameInputs :
        /\ ui.mode = "dialog"
        /\ LET new_name == Strip(typed)
           IN  IF SaveCustomNameProceeds(device_db, new_name, ui.device_key)
               THEN /\ device_db' = SaveCustomNameDb(device_db, new_name, ui.device_key)
                    /\ ui' = [mode |-> "save_msgbox", device_key |-> ui.device_key,
                              entry |-> typed, new_name |-> new_name,
                              store_before |-> device_db]
               ELSE /\ ui' = [mode |-> "idle", dialog_closed_by |-> "save_nothing"]
                    /\ UNCHANGED device_db
        /\ UNCHANGED <<keyVars, statusVars, dirVars, db_file, guiVars, workers, after_queue,
                       disabled_devices, user_actions>>

\* Lines 748-749 and 717: the message box is closed; save_device_database,
\* populate_devices, dialog.destroy().
SaveMsgboxClosed ==
    /\ ui.mode = "save_msgbox"
    /\ db_file' \in save_device_database(db_file, device_db)
    /\ workers' = populate_devices
    /\ ui' = [mode |-> "idle"]
    /\ UNCHANGED <<keyVars, statusVars, dirVars, device_db, guiVars, after_queue,
                   disabled_devices, user_actions>>

\* Lines 719-720, cancel_and_close.
CancelAndClose ==
    /\ ui.mode = "dialog"
    /\ ui' = [mode |-> "idle", dialog_closed_by |-> "cancel"]
    /\ UNCHANGED <<keyVars, statusVars, dirVars, storeVars, guiVars, workers, after_queue,
                   disabled_devices, user_actions>>

Next ==
    \/ RefreshClick
    \/ PopulateWorkerRun
    \/ PopulateWorkerAfter
    \/ StatusWorkerRun
    \/ StatusWorkerAfter
    \/ RunCallback
    \/ ComboboxSelect
    \/ ToggleClick
    \/ ToggleMsgboxClosed
    \/ WarningClosed
    \/ EditNameClick
    \/ SaveAndClose
    \/ SaveMsgboxClosed
    \/ CancelAndClose

Spec == InitApp /\ [][Next]_vars

\* The application with its scheduling: a started thread runs on, its external
\* call returns, and the Tk event loop, which also runs inside a message box
\* and inside wait_window, comes to every callback scheduled with after(0, ...).
SpecLive ==
    /\ InitApp
    /\ [][Next]_vars
    /\ WF_vars(StatusWorkerRun)
    /\ WF_vars(StatusWorkerAfter)
    /\ WF_vars(RunCallback)

----------------------------------------------------------------------------
(* Properties of get_device_status (SpecStatus) *)

StatusDone == statusResult # Pending

\* The decoded payload get_device_status classifies: the document itself when
\* it is an object, the first element of a non-empty array when that is one.
HasPayload ==
    /\ statusQuery # Pending
    /\ statusQuery.returncode = 0
    /\ statusQuery.stdout.kind = "json"
    /\ LET v == statusQuery.stdout.value
       IN  \/ v.t = "obj"
           \/ v.t = "list" /\ Len(v.items) > 0 /\ v.items[1].t = "obj"

Payload ==
    LET v == statusQuery.stdout.value IN IF v.t = "obj" THEN v.f ELSE v.items[1].f

PresentIsFalse == "Present" \in DOMAIN Payload /\ Payload["Present"] = PyBool(FALSE)

\* errorCode as a trimmed string ("" when the field is absent)
TrimmedCode ==
    IF "ConfigManagerErrorCode" \in DOMAIN Payload
    THEN Strip(Str(Payload["ConfigManagerErrorCode"]))
    ELSE <<>>

\* statusText, trimmed and compared without regard to case, contains "OK"
TextHasOK ==
    /\ "Status" \in DOMAIN Payload
    /\ LET text == Lower(Strip(Str(Payload["Status"])))
       IN  \E i \in 1..(Len(text) - 1) : text[i] = "o" /\ text[i + 1] = "k"

\* C1: a payload whose Present field is the boolean false is classified
\* disabled, whatever its error code and status text are.
C1_PresentFalseIsDisabled ==
    (StatusDone /\ HasPayload /\ PresentIsFalse)
        => (statusResult.status = "disabled" /\ ~statusResult.raised)

\* Present false together with error code 0 and status text OK: disabled.
C1_Witness ==
    /\ StatusDone /\ HasPayload /\ PresentIsFalse
    /\ TrimmedCode = <<"0">> /\ TextHasOK
    /\ statusResult.status = "disabled"

\* C2: with Present not false the first match wins: code "22" disabled,
\* else code "0" enabled, else status text containing OK enabled, else unknown.
C2_CodeThenTextPrecedence ==
    (StatusDone /\ HasPayload /\ ~PresentIsFalse) =>
        /\ TrimmedCode = <<"2","2">> => statusResult.status = "disabled"
        /\ TrimmedCode = <<"0">> => statusResult.status = "enabled"
        /\ (TrimmedCode \notin {<<"2","2">>, <<"0">>} /\ TextHasOK)
               => statusResult.status = "enabled"
        /\ (TrimmedCode \notin {<<"2","2">>, <<"0">>} /\ ~TextHasOK)
               => statusResult.status = "unknown"

\* Code " 22\n" (22 once trimmed) beside a status text containing OK: disabled.
C2_Witness ==
    /\ StatusDone /\ HasPayload /\ ~PresentIsFalse
    /\ "ConfigManagerErrorCode" \in DOMAIN Payload
    /\ Payload["ConfigManagerErrorCode"] = PyString(<<" ","2","2","\n">>)
    /\ TextHasOK
    /\ statusResult.status = "disabled"

\* A query outcome with no payload to classify: the command failed, printed
\* nothing, printed something undecodable, or a document of the wrong shape.
Malformed ==
    /\ statusQuery # Pending
    /\ \/ statusQuery.returncode # 0
       \/ statusQuery.stdout.kind \in {"empty", "garbage"}
       \/ LET v == statusQuery.stdout.value
          IN  \/ v.t \notin {"obj", "list"}
              \/ v.t = "list" /\ Len(v.items) = 0
              \/ v.t = "list" /\ Len(v.items) > 0 /\ v.items[1].t # "obj"

\* C3: get_device_status is total: it never raises, it always returns one of
\* the three statuses, and a malformed outcome gives unknown.
C3_StatusIsTotal ==
    StatusDone =>
        /\ ~statusResult.raised
        /\ statusResult.status \in {"enabled", "disabled", "unknown"}
        /\ Malformed => statusResult.status = "unknown"

\* An array whose first element is not an object was answered with unknown.
C3_Witness ==
    /\ StatusDone
    /\ statusQuery.returncode = 0
    /\ statusQuery.stdout.kind = "json"
    /\ statusQuery.stdout.value.t = "list"
    /\ Len(statusQuery.stdout.value.items) > 0
    /\ statusQuery.stdout.value.items[1].t # "obj"
    /\ statusResult.status = "unknown"
    /\ ~statusResult.raised

----------------------------------------------------------------------------
(* Properties of extract_vid_pid (SpecKey) *)

KeyDone == keyResult # Pending

\* No (vendor, product) pair came back.
KeyIsNone == keyResult.vid = PyNone \/ keyResult.pid = PyNone

HexChars ==
    {"0","1","2","3","4","5","6","7","8","9",
     "a","b","c","d","e","f","A","B","C","D","E","F"}

\* The four-character prefix (VID_ or PID_), in any letter case, stands at i.
PrefixAt(prefix, s, i) ==
    /\ i + 3 <= Len(s)
    /\ \A k \in 1..4 : LowerChar(s[i + k - 1]) = LowerChar(prefix[k])

\* The number of hex digits that follow from position i on.
RECURSIVE HexRun(_, _)
HexRun(s, i) == IF i <= Len(s) /\ s[i] \in HexChars THEN 1 + HexRun(s, i + 1) ELSE 0

PrefixPositions(prefix, s) == {i \in 1..Len(s) : PrefixAt(prefix, s, i)}

\* Some occurrence of the prefix is followed by at least four hex digits.
HasGroup(prefix, s) == \E i \in PrefixPositions(prefix, s) : HexRun(s, i + 4) >= 4

\* The four digits after the leftmost such occurrence.
FirstGroup(prefix, s) ==
    LET at == {i \in PrefixPositions(prefix, s) : HexRun(s, i + 4) >= 4}
        i == CHOOSE i \in at : \A j \in at : i <= j
    IN  SubSeq(s, i + 4, i + 7)

\* The prefix occurs, and never with exactly four hex digits after it.
WrongLength(prefix, s) ==
    /\ PrefixPositions(prefix, s) # {}
    /\ \A i \in PrefixPositions(prefix, s) : HexRun(s, i + 4) # 4

\* The prefix occurs with exactly four hex digits after it.
HasExactGroup(prefix, s) == \E i \in PrefixPositions(prefix, s) : HexRun(s, i + 4) = 4

VIDp == <<"V","I","D","_">>
PIDp == <<"P","I","D","_">>

\* C4 as claimed: none for an identifier with only one of the two patterns,
\* and none whenever a prefix is followed by a hex run not exactly 4 long.
C4_Original ==
    KeyDone =>
        /\ (HasExactGroup(VIDp, idString) # HasExactGroup(PIDp, idString)) => KeyIsNone
        /\ (WrongLength(VIDp, idString) \/ WrongLength(PIDp, idString)) => KeyIsNone

\* C4 as amended: none exactly when the VID_ prefix or the PID_ prefix is
\* nowhere followed by at least 4 hex digits (only one pattern, or fewer than
\* 4 digits); a longer run is accepted and its first 4 digits are the id.
C4_NoneUnlessBothGroups ==
    KeyDone =>
        /\ KeyIsNone <=> ~(HasGroup(VIDp, idString) /\ HasGroup(PIDp, idString))
        /\ (HasGroup(VIDp, idString) /\ HasGroup(PIDp, idString)) =>
               /\ keyResult.vid.s = Upper(FirstGroup(VIDp, idString))
               /\ keyResult.pid.s = Upper(FirstGroup(PIDp, idString))

\* VID_ followed by two hex digits only, beside a good PID_ group: none.
C4_Witness ==
    /\ KeyDone
    /\ PrefixPositions(VIDp, idString) # {}
    /\ \A i \in PrefixPositions(VIDp, idString) : HexRun(idString, i + 4) < 4
    /\ HasGroup(PIDp, idString)
    /\ KeyIsNone

AllUpper(s) == \A i \in DOMAIN s : s[i] \notin {"a","b","c","d","e","f"}

\* C5: an identifier holding both a VID_xxxx and a PID_xxxx group, in any
\* letter case and anywhere, yields exactly the two groups in upper case.
C5_BothGroupsUpperCased ==
    (KeyDone /\ HasGroup(VIDp, idString) /\ HasGroup(PIDp, idString)) =>
        /\ keyResult.vid = PyString(Upper(FirstGroup(VIDp, idString)))
        /\ keyResult.pid = PyString(Upper(FirstGroup(PIDp, idString)))
        /\ AllUpper(keyResult.vid.s) /\ AllUpper(keyResult.pid.s)
        /\ Len(keyResult.vid.s) = 4 /\ Len(keyResult.pid.s) = 4

\* vId_12ab ... pid_cd34 gave ("12AB", "CD34").
C5_Witness ==
    /\ KeyDone
    /\ keyResult.vid = PyString(<<"1","2","A","B">>)
    /\ keyResult.pid = PyString(<<"C","D","3","4">>)
    /\ PrefixAt(<<"v","I","d","_">>, idString, 1)
    /\ idString[1] = "v"

----------------------------------------------------------------------------
(* Properties of the enumeration (SpecDir) *)

\* The enumeration returned a list built from a decoded output.
DirBuilt ==
    /\ enumResult # Pending
    /\ ~enumResult.raised
    /\ enumQuery.returncode = 0
    /\ enumQuery.stdout.kind = "json"

\* The raw records, in the order the enumeration read them.
RawRecords ==
    LET v == enumQuery.stdout.value IN IF v.t = "list" THEN v.items ELSE <<v>>

Directory == enumResult.devices

\* A field of a raw record that holds a non-empty string, else <<>>.
TextOf(rec, field) ==
    IF field \in DOMAIN rec.f /\ rec.f[field].t = "str" THEN rec.f[field].s ELSE <<>>

\* The hardware identifier strings of a raw record, in listed order.
HardwareStrings(rec) ==
    IF "HardwareId" \notin DOMAIN rec.f THEN <<>>
    ELSE LET h == rec.f["HardwareId"]
         IN  CASE h.t = "str" -> <<h.s>>
               [] h.t = "list" -> [i \in DOMAIN h.items |-> h.items[i].s]
               [] OTHER -> <<>>

\* The identifier holds a VID_xxxx and a PID_xxxx group.
FullPair(s) == HasGroup(VIDp, s) /\ HasGroup(PIDp, s)

KeyText(s) == Upper(FirstGroup(VIDp, s)) \o <<":">> \o Upper(FirstGroup(PIDp, s))

\* The DeviceKey C6 describes: from the instanceId if it yields a pair, else
\* from the first hardware id that does, else none.
ExpectedKey(rec) ==
    LET id == TextOf(rec, "InstanceId")
        hws == HardwareStrings(rec)
        good == {i \in DOMAIN hws : FullPair(hws[i])}
    IN  IF FullPair(id) THEN PyString(KeyText(id))
        ELSE IF good = {} THEN PyNone
        ELSE PyString(KeyText(hws[CHOOSE i \in good : \A j \in good : i <= j]))

\* C6: the key of an entry is the instanceId's pair if it has one, otherwise
\* that of the first hardware id with a pair, otherwise absent.
C6_KeyFromIdThenFirstHardwareId ==
    DirBuilt =>
        \A i \in DOMAIN Directory :
            Directory[i].vid_pid_key = ExpectedKey(Directory[i].full_info)

\* A record whose instanceId has no pair and whose hardware ids are a keyless
\* one, then 046D:C52B, then 1234:ABCD: the key is 046D:C52B.
C6_Witness ==
    /\ DirBuilt
    /\ \E i \in DOMAIN Directory :
        /\ Directory[i].id = IdKbd
        /\ HardwareStrings(Directory[i].full_info) = <<HwNoKey, HwLogi, HwA>>
        /\ Directory[i].vid_pid_key = PyString(KeyLogi)

\* The position of the first raw record with this instanceId.
FirstOccurrence(id) ==
    LET at == {k \in DOMAIN RawRecords :
                  RawRecords[k].t = "obj" /\ TextOf(RawRecords[k], "InstanceId") = id}
    IN  CHOOSE k \in at : \A j \in at : k <= j

RawIds ==
    {TextOf(RawRecords[k], "InstanceId") : k \in {k \in DOMAIN RawRecords : RawRecords[k].t = "obj"}}
        \ {<<>>}

\* C7: no instanceId occurs twice in the directory, every instanceId of the
\* input is there, and its entry is built from its first occurrence.
C7_UniqueByInstanceIdFirstKept ==
    DirBuilt =>
        /\ \A i, j \in DOMAIN Directory : Directory[i].id = Directory[j].id => i = j
        /\ {Directory[i].id : i \in DOMAIN Directory} = RawIds
        /\ \A i \in DOMAIN Directory :
               Directory[i].full_info = RawRecords[FirstOccurrence(Directory[i].id)]

\* Two different records with the same instanceId gave one entry, the first's.
C7_Witness ==
    /\ DirBuilt
    /\ Len(RawRecords) = 2
    /\ RawRecords[1].t = "obj" /\ RawRecords[2].t = "obj"
    /\ TextOf(RawRecords[1], "InstanceId") = IdA0
    /\ TextOf(RawRecords[2], "InstanceId") = IdA0
    /\ RawRecords[1] # RawRecords[2]
    /\ Len(Directory) = 1
    /\ Directory[1].full_info = RawRecords[1]

\* The name C8 describes, before the key is appended.
ExpectedBaseName(rec, key, db) ==
    IF key # PyNone /\ key.s \in DOMAIN db /\ db[key.s].s # <<>> THEN db[key.s].s
    ELSE IF TextOf(rec, "FriendlyName") # <<>> THEN TextOf(rec, "FriendlyName")
    ELSE IF TextOf(rec, "DeviceDescription") # <<>> THEN TextOf(rec, "DeviceDescription")
    ELSE TextOf(rec, "InstanceId")

\* C8: the display name is the override, else the friendly name, else the
\* description, else the instanceId, with " [VID:PID]" appended when the
\* entry has a key.
C8_DisplayNamePrecedence ==
    DirBuilt =>
        \A i \in DOMAIN Directory :
            LET e == Directory[i]
                base == ExpectedBaseName(e.full_info, e.vid_pid_key, enumDb)
            IN  e.display_name =
                    IF e.vid_pid_key # PyNone
                    THEN base \o <<" ","[">> \o e.vid_pid_key.s \o <<"]">>
                    ELSE base

\* "Mouse X [1234:ABCD]" with no override, and beside it, or in another run,
\* the override "My Mouse [1234:ABCD]" for a record named "Mouse X".
C8_Witness ==
    /\ DirBuilt
    /\ \E i \in DOMAIN Directory :
        /\ TextOf(Directory[i].full_info, "FriendlyName") = NameMouseX
        /\ \/ /\ enumDb = <<>>
              /\ Directory[i].display_name = NameMouseX \o <<" ","[">> \o KeyA \o <<"]">>
           \/ /\ KeyA \in DOMAIN enumDb
              /\ Directory[i].display_name = NameMyMouse \o <<" ","[">> \o KeyA \o <<"]">>
    /\ \E i \in DOMAIN Directory :
        Directory[i].vid_pid_key = PyNone /\ Directory[i].display_name = IdKbd

\* a sorts before b when letter case is ignored.
LessIgnoringCase(a, b) ==
    \E k \in 1..(Len(b)) :
        /\ k <= Len(a) + 1
        /\ \A m \in 1..(k - 1) : LowerChar(a[m]) = LowerChar(b[m])
        /\ \/ k = Len(a) + 1
           \/ Ord(LowerChar(a[k])) < Ord(LowerChar(b[k]))

EqualIgnoringCase(a, b) ==
    Len(a) = Len(b) /\ \A m \in DOMAIN a : LowerChar(a[m]) = LowerChar(b[m])

\* C9: the directory is in case-insensitive display-name order, and entries
\* with names equal up to case are in the order of the deduplicated input.
C9_SortedIgnoringCaseStable ==
    DirBuilt =>
        \A i, j \in DOMAIN Directory :
            i < j =>
                /\ ~LessIgnoringCase(Directory[j].display_name, Directory[i].display_name)
                /\ EqualIgnoringCase(Directory[i].display_name, Directory[j].display_name)
                       => FirstOccurrence(Directory[i].id) < FirstOccurrence(Directory[j].id)

\* "Zebra ..." read before "apple ..." comes after it, and "mouse x ..." read
\* before "Mouse X ..." stays before it.
C9_Witness ==
    /\ DirBuilt
    /\ Len(Directory) = 3
    /\ Directory[1].id = IdA1 /\ Directory[2].id = IdA0 /\ Directory[3].id = IdKbd
    /\ EqualIgnoringCase(Directory[1].display_name, Directory[2].display_name)
    /\ Directory[1].display_name # Directory[2].display_name
    /\ Directory[3].display_name[1] = "Z"
    /\ FirstOccurrence(IdKbd) = 1
    /\ FirstOccurrence(IdA1) < FirstOccurrence(IdA0)

----------------------------------------------------------------------------
(* Properties of the name-override store (Spec) *)

\* save_and_close has just changed the store: the confirmation box is open.
OverrideStored == ui.mode = "save_msgbox"

\* The step in which save_and_close changes self.device_db.
SetOverrideStep == ui.mode = "dialog" /\ ui'.mode = "save_msgbox"

\* text without the white space around it, said without strip(): the part of
\* text from its first to its last character that is not white space.
TrimmedText(text) ==
    LET ink == {i \in DOMAIN text : ~IsSpace(text[i])}
    IN  IF ink = {} THEN <<>>
        ELSE LET first == CHOOSE i \in ink : \A j \in ink : i <= j
                 last == CHOOSE i \in ink : \A j \in ink : j <= i
             IN  [i \in 1..(last - first + 1) |-> text[first + i - 1]]

\* C10: setting an override with a name that is not empty once trimmed makes
\* the store map the device key to exactly the trimmed name; setting an empty
\* name on a key the store holds removes that key; in both cases every other
\* key of the store keeps its value and no other key appears.
C10_SetOverrideChangesOnlyItsKey ==
    [][SetOverrideStep =>
          LET device_key == ui.device_key
              name == TrimmedText(ui'.entry)
          IN  /\ IF name # <<>>
                 THEN /\ device_key \in DOMAIN device_db'
                      /\ device_db'[device_key] = PyString(name)
                 ELSE /\ device_key \in DOMAIN device_db
                      /\ device_key \notin DOMAIN device_db'
              /\ DOMAIN device_db' \ {device_key} = DOMAIN device_db \ {device_key}
              /\ \A k \in DOMAIN device_db \ {device_key} : device_db'[k] = device_db[k]]_vars

\* An override was set from an entry with spaces around the name and saved,
\* and has now been removed again with an empty entry, next to another key.
C10_Witness ==
    /\ OverrideStored
    /\ ui.device_key = KeyA
    /\ ui.new_name = <<>>
    /\ db_file = FileJson((KeyA :> PyString(NameMyMouse)) @@ (KeyLogi :> PyString(NameApple)))
    /\ device_db = (KeyLogi :> PyString(NameApple))


----------------------------------------------------------------------------
(* Properties of persisting the store (Spec) *)

\* No call of _save_custom_name is under way: the main thread is not between
\* the change of self.device_db and the return of save_device_database.
NoEditUnderWay == ui.mode # "save_msgbox"

\* C11: whenever no edit is under way, the content of device_names.json is the
\* in-memory store: loading the file would yield self.device_db.
C11_PersistedStoreEqualsMemory ==
    NoEditUnderWay => load_device_database(db_file) = device_db


\* The step in which save_device_database returns and _save_custom_name goes on.
SaveReturns == ui.mode = "save_msgbox" /\ ui'.mode # "save_msgbox"

\* save_device_database did not write the store: the file does not hold it.
SaveFailed == SaveReturns /\ db_file' # FileJson(device_db)

\* C12: when writing the file fails during an edit, the in-memory store is
\* again what it was before the edit, and the user is left with an error
\* message rather than with the main window as after a success.
C12_FailedSaveRollsBackAndReports ==
    [][SaveFailed => device_db' = ui.store_before /\ ui'.mode = "warning"]_vars


----------------------------------------------------------------------------
(* Properties of the selection (Spec) *)

\* The step in which the event loop runs _update_populate_gui.
PopulateCallbackRuns ==
    /\ after_queue # <<>>
    /\ Head(after_queue).fn = "_update_populate_gui"
    /\ after_queue' = Tail(after_queue)

\* The entry C13 describes for a directory and a previous instance id: its
\* place in the directory, 0 when the directory is empty.
ReselectedEntry(directory, previous_id) ==
    IF directory = <<>> THEN 0
    ELSE IF \E i \in DOMAIN directory : PyString(directory[i].id) = previous_id
         THEN CHOOSE i \in DOMAIN directory : PyString(directory[i].id) = previous_id
         ELSE 1

----------------------------------------------------------------------------
(* Properties of the toggle (Spec) *)

\* The step in which toggle_device_status goes on after its message box:
\* pnputil has returned before the box was shown.
ToggleReturns == ui.mode = "toggle_msgbox" /\ ui'.mode # "toggle_msgbox"

\* C14: every toggle, successful or not, is followed by a status check of the
\* device that was toggled, started after the pnputil call has returned.
C14_ToggleRechecksToggledDevice ==
    [][ToggleReturns => workers' = Spawn(StatusWorker(ui.device_id))]_vars


----------------------------------------------------------------------------
(* Properties of the threads (Spec) *)

\* A step of a worker thread: a thread leaves the place it was at. The main
\* thread starts threads and never ends one.
WorkerThreadStep ==
    \E w \in BagToSet(workers) : CopiesIn(w, workers') < CopiesIn(w, workers)

\* C15: the directory, the selection and the store are assigned by the main
\* thread only: no step of a worker thread changes any of them.
C15_WorkersAssignNoSharedState ==
    [][WorkerThreadStep =>
          UNCHANGED <<available_devices, current_selected_device_id, device_db>>]_vars


----------------------------------------------------------------------------
(* Properties of a failed enumeration (SpecDir) *)

\* The call of the enumeration has ended, by returning or by raising.
EnumEnded == enumResult # Pending

\* The command failed, or its output is no JSON, or an element of the decoded
\* output is not an object.
EnumerationFailed ==
    \/ enumQuery.returncode # 0
    \/ enumQuery.stdout.kind = "garbage"
    \/ /\ enumQuery.stdout.kind = "json"
       /\ \E i \in DOMAIN RawRecords : RawRecords[i].t # "obj"

\* C16: a failed enumeration ends with an empty directory and an error shown
\* to the user: the call returns the empty list after a message box.
C16_FailedEnumerationGivesEmptyDirectory ==
    (EnumEnded /\ EnumerationFailed) =>
        /\ ~enumResult.raised
        /\ enumResult.devices = <<>>
        /\ enumResult.diag = "messagebox"


----------------------------------------------------------------------------
(* Properties of the store's content (Spec) *)

\* "VVVV:PPPP" with upper-case hexadecimal digits.
WellFormedKey(k) ==
    /\ Len(k) = 9
    /\ k[5] = ":"
    /\ \A i \in {1, 2, 3, 4, 6, 7, 8, 9} : k[i] \in Range(Digits) \cup {"A", "B", "C", "D", "E", "F"}

\* C17: in every state, every key of the store is a well-formed "VID:PID"
\* string and no key maps to an empty name.
C17_StoreKeysWellFormedNamesNonEmpty ==
    \A k \in DOMAIN device_db :
        /\ WellFormedKey(k)
        /\ device_db[k].t = "str"
        /\ device_db[k].s # <<>>


----------------------------------------------------------------------------
(* Properties of overrides in the directory (Spec) *)

\* The step in which a populate thread assigns the directory it has built.
DirectoryBuilt ==
    /\ WorkerThreadStep
    /\ \E w \in BagToSet(workers') :
        /\ w.kind = "populate" /\ w.pc = "after"
        /\ CopiesIn(w, workers') > CopiesIn(w, workers)

StartsWith(s, prefix) ==
    Len(prefix) <= Len(s) /\ SubSeq(s, 1, Len(prefix)) = prefix

\* C18: every directory built shows, for each record, a display name that
\* starts with the name the store then holds for the record's key: the name
\* of the last override set for it; and with the friendly name, else the
\* description, else the instance id, when the store holds no name for the
\* key, as after the override was removed.
C18_DirectoryShowsStoredOverride ==
    [][DirectoryBuilt =>
          \A i \in DOMAIN available_devices' :
              LET e == available_devices'[i]
              IN  StartsWith(e.display_name,
                             ExpectedBaseName(e.full_info, e.vid_pid_key, device_db))]_vars

\* The list on screen was built while the override "My Mouse" was set; the
\* override has been removed since, and the directory built after that shows
\* the friendly name again.
C18_Witness ==
    /\ KeyA \notin DOMAIN device_db
    /\ \E i \in DOMAIN combobox_values : StartsWith(combobox_values[i], NameMyMouse)
    /\ \E i \in DOMAIN available_devices :
        /\ available_devices[i].vid_pid_key = PyString(KeyA)
        /\ StartsWith(available_devices[i].display_name, NameMouseX)


----------------------------------------------------------------------------
(* Properties of an empty name for a key without override (Spec) *)

\* The step in which save_and_close is run with an entry that is empty once
\* trimmed, for a key the store does not hold.
EmptyNameForAbsentKey ==
    /\ ui.mode = "dialog"
    /\ ui.device_key \notin DOMAIN device_db
    /\ \/ ui'.mode = "idle" /\ ui'.dialog_closed_by = "save_nothing"
       \/ ui'.mode = "save_msgbox" /\ TrimmedText(ui'.entry) = <<>>

\* C19: removing the override of a key that has none changes nothing: the
\* store, the file, the directory and the selection stay as they are, no
\* save and no refresh is started, and the dialog closes with no message.
C19_RemovingAbsentOverrideIsNoOp ==
    [][EmptyNameForAbsentKey =>
          /\ ui'.mode = "idle"
          /\ UNCHANGED <<device_db, db_file, available_devices, current_selected_device_id,
                         combobox_values, selected_device_name, workers, after_queue>>]_vars

\* The dialog of a listed, selected device was saved with nothing to store.
C19_Witness ==
    /\ ui.mode = "idle"
    /\ "dialog_closed_by" \in DOMAIN ui
    /\ ui.dialog_closed_by = "save_nothing"
    /\ Truthy(current_selected_device_id)
    /\ FirstByName(available_devices, selected_device_name) # 0
    /\ available_devices[FirstByName(available_devices, selected_device_name)].vid_pid_key.s
           \notin DOMAIN device_db


----------------------------------------------------------------------------
(* Properties of the display name (SpecDir) *)

\* C20: every entry of every directory built has a display name that is not
\* empty, whatever is present, absent or empty among the friendly name, the
\* description, the override and the key.
C20_DisplayNameNeverEmpty ==
    DirBuilt => \A i \in DOMAIN Directory : Directory[i].display_name # <<>>

\* An entry with no key and with neither friendly name nor description is
\* shown under its instance id; another has a key whose override is empty,
\* and no friendly name.
C20_Witness ==
    /\ DirBuilt
    /\ \E i \in DOMAIN Directory :
        /\ Directory[i].vid_pid_key = PyNone
        /\ TextOf(Directory[i].full_info, "FriendlyName") = <<>>
        /\ TextOf(Directory[i].full_info, "DeviceDescription") = <<>>
        /\ Directory[i].display_name = Directory[i].id
    /\ \E i \in DOMAIN Directory :
        /\ Directory[i].vid_pid_key # PyNone
        /\ Directory[i].vid_pid_key.s \in DOMAIN enumDb
        /\ enumDb[Directory[i].vid_pid_key.s] = PyString(<<>>)
        /\ TextOf(Directory[i].full_info, "FriendlyName") = <<>>


----------------------------------------------------------------------------
(* Properties of where the external calls run (Spec) *)

\* The step in which pnputil is run for a toggle and returns.
ToggleCallMade == ui.mode # "toggle_msgbox" /\ ui'.mode = "toggle_msgbox"

\* C21: the external calls run on worker threads, never on the main thread:
\* the step in which pnputil runs for a toggle is a step of a worker thread,
\* as the steps are in which the enumeration and the status query run.
C21_ExternalCallsOffMainThread == [][ToggleCallMade => WorkerThreadStep]_vars


----------------------------------------------------------------------------
(* Properties of overlapping refreshes (Spec) *)

\* No refresh is in flight: no enumeration thread runs and no
\* _update_populate_gui is scheduled.
RefreshesDone ==
    /\ \A w \in BagToSet(workers) : w.kind # "populate"
    /\ \A i \in DOMAIN after_queue : after_queue[i].fn # "_update_populate_gui"

DisplayNames(devices) == [i \in DOMAIN devices |-> devices[i].display_name]

\* The status checks in flight for a device: threads and scheduled callbacks.
StatusChecksFor(device_id) ==
    {w \in BagToSet(workers) : w.kind = "status" /\ w.device_id = device_id}
    \cup {after_queue[i] : i \in {j \in DOMAIN after_queue :
                                    /\ after_queue[j].fn = "_update_status_gui"
                                    /\ after_queue[j].device_id = device_id}}

----------------------------------------------------------------------------
(* Properties of saving and loading the store (SpecStore) *)

\* C23: what load_device_database makes of the file a save has written is
\* the store that was saved, with the same keys and the same values; and a
\* save of the store just loaded leaves the pairs the file holds as they were.
C23_SaveLoadRoundTrip ==
    [][SaveStoreStep =>
          /\ load_device_database(db_file') = device_db
          /\ device_db = load_device_database(db_file)
                => load_device_database(db_file') = load_device_database(db_file)]_vars

\* A store of three pairs, one name with quotes in it and one with
\* backslashes, has been saved, and the file decodes to it.
C23_Witness ==
    /\ db_file = FileWritten(device_db)
    /\ DOMAIN device_db = StoreKeys
    /\ device_db[KeyA] = PyString(NameQuoted)
    /\ device_db[KeyLogi] = PyString(NameBackslash)
    /\ load_device_database(db_file) = device_db


----------------------------------------------------------------------------
(* Properties of the status checks and of the selection (Spec) *)

\* A status check is in flight: its thread runs, or its _update_status_gui
\* is scheduled and has not run.
StatusCheckInFlight ==
    \/ \E w \in BagToSet(workers) : w.kind = "status"
    \/ \E i \in DOMAIN after_queue : after_queue[i].fn = "_update_status_gui"

\* C24: while a status check is in flight the enable, disable and edit-name
\* buttons are disabled, also when a refresh started the check and when
\* several checks are in flight.
C24_ButtonsDisabledDuringStatusCheck ==
    StatusCheckInFlight => buttons_state = "disabled"


\* C25: when the user picks an entry of the displayed list, the selection
\* becomes the instance id of that entry. The pick reaches on_device_selected
\* as the name of the entry alone, so the step of picking one entry is the
\* step of picking any entry of the same name: the selection has to be the
\* id of each of them. The list shown is that of the current directory.
C25_PickSelectsPickedEntry ==
    [][(ComboboxSelect /\ combobox_values = DisplayNames(available_devices)) =>
          \A i \in DOMAIN combobox_values :
              combobox_values[i] = selected_device_name' =>
                  current_selected_device_id' = PyString(available_devices[i].id)]_vars


\* The event loop runs an _update_status_gui.
StatusCallbackRuns ==
    /\ after_queue # <<>>
    /\ Head(after_queue).fn = "_update_status_gui"
    /\ after_queue' = Tail(after_queue)

\* C26: with no status check in flight and a device selected, the status
\* displayed is the result of a query made for the selected device: the
\* result applied last, after which no check is in flight, was fetched for
\* the device that is selected then.
C26_DisplayedStatusIsOfSelectedDevice ==
    [][(/\ StatusCallbackRuns
        /\ ~StatusCheckInFlight'
        /\ Truthy(current_selected_device_id'))
          => Head(after_queue).device_id = current_selected_device_id'.s]_vars


\* C27: in every state the selection is none or the id of an entry of the
\* directory, and the displayed list is the list of the names of the
\* directory, also while refreshes complete.
C27_SelectionAndListFollowDirectory ==
    /\ combobox_values = DisplayNames(available_devices)
    /\ Truthy(current_selected_device_id)
          => FirstById(available_devices, current_selected_device_id.s) # 0

\* C28: a refresh never replaces the selection while the selected device is
\* in the refreshed directory: when _update_populate_gui runs with a device
\* selected that the directory holds, that device is still selected after it.
C28_RefreshKeepsPresentSelection ==
    [][(/\ PopulateCallbackRuns
        /\ Truthy(current_selected_device_id)
        /\ FirstById(available_devices, current_selected_device_id.s) # 0)
          => current_selected_device_id' = current_selected_device_id]_vars

\* C29: whenever the action buttons are enabled a device is selected.
C29_EnabledButtonsHaveSelection ==
    buttons_state = "normal" => Truthy(current_selected_device_id)


----------------------------------------------------------------------------
(* Termination of the status checks (SpecLive) *)

====
